---------------------------- MODULE Spec2Model ----------------------------
(* Model of the ad-video renamer (adVideo_renamer.py) and of the metadata    *)
(* export (adVideo_metadataPrep.py), with the row filter the two share.      *)
(*                                                                           *)
(* Text values are sequences of one-character strings, so that trimming,     *)
(* os.path.splitext and the formatting of the target name are computed and   *)
(* not assumed.  A spreadsheet cell is a record [t, v]: t = "nan" is the     *)
(* float NaN pandas stores for an empty cell, t = "float" a number pandas    *)
(* holds as float64 (v is its integer part), t = "str" a text cell.          *)
EXTENDS Integers, Sequences, FiniteSets, TLC

VARIABLES
    table,                    \* the DataFrame as read: [hdr, rows]
    folder,                   \* the names of the files in the video folder
    pc,                       \* position in main(): start, rows, summary, done,
                              \* exit1 (sys.exit(1)), crash (uncaught exception);
                              \* prep_... for the metadata export
    run,                      \* 1 for the first invocation, 2 for a re-run
    valid_rows,               \* renamer: valid_rows, each [idx, cells]
    prep_valid_rows,          \* metadataPrep: valid_rows, each [idx, cells]
    i,                        \* number of valid rows already processed
    successful_renames,
    could_not_rename_files,   \* sequence of failure entries [kind, text]
    matched_spreadsheet_descriptions,
    initial_files_in_folder,  \* names snapshot taken before the loop
    files_in_folder_without_spreadsheet_match,
    log,                      \* history: one record per processed row
    prev,                     \* history: the result of the first run, once re-run
    folder_exists,            \* whether the folder path names a directory
    folder0,                  \* history: the folder when the script was started
    listdir_calls,            \* history: number of os.listdir(folder) calls
    assets_is_downloads,      \* whether the folder is the user's Downloads
    launch,                   \* "ui" or "cli": who built the command line
    args,                     \* metadataPrep: the four override arguments
    prep_i,                   \* metadataPrep: valid rows already processed
    output_data,              \* metadataPrep: the export records so far
    out_file,                 \* metadataPrep: the CSV written, [written, rows]
    prep_log,                 \* history: one record per row of the export
    progress,                 \* history: the PROGRESS lines printed so far
    gui,                      \* the UI: one script run with a progress bar
    upd                       \* the UI: the update of the local scripts

vars == <<table, folder, pc, run, valid_rows, prep_valid_rows, i,
          successful_renames, could_not_rename_files,
          matched_spreadsheet_descriptions, initial_files_in_folder,
          files_in_folder_without_spreadsheet_match, log, prev,
          folder_exists, folder0, listdir_calls, assets_is_downloads,
          launch, args, prep_i, output_data, out_file, prep_log, progress,
          gui, upd>>

\* What the scripts are started on, and the state of the UI: the scripts
\* never assign them.
envVars == <<folder0, assets_is_downloads, launch, args, gui, upd>>

\* The state of the metadata export.
prepVars == <<prep_i, output_data, out_file, prep_log>>

\* The state of the renamer.
renVars == <<run, valid_rows, i, successful_renames, could_not_rename_files,
             matched_spreadsheet_descriptions, initial_files_in_folder,
             files_in_folder_without_spreadsheet_match, log, prev>>

-----------------------------------------------------------------------------
(* Bounds *)

MaxRows == 2

MaxFiles == 2

MaxFilterRows == 2

-----------------------------------------------------------------------------
(* Text *)

EmptyStr == <<>>

\* Python str.strip(): leading and trailing blanks removed.
RECURSIVE lstrip(_)
lstrip(s) == IF s # <<>> /\ Head(s) = " " THEN lstrip(Tail(s)) ELSE s

RECURSIVE rstrip(_)
rstrip(s) ==
    IF s # <<>> /\ s[Len(s)] = " " THEN rstrip(SubSeq(s, 1, Len(s) - 1)) ELSE s

strip(s) == rstrip(lstrip(s))

\* p.rfind('.') as a 1-based index, 0 when there is no dot.
LastDot(p) ==
    LET dots == {k \in 1..Len(p) : p[k] = "."}
    IN  IF dots = {} THEN 0 ELSE CHOOSE k \in dots : \A j \in dots : j <= k

\* os.path.splitext of a bare file name: split at the last dot unless only
\* dots precede it (genericpath._splitext with no separator in the name).
splitext(p) ==
    LET d == LastDot(p)
    IN  IF d > 0 /\ \E j \in 1..(d - 1) : p[j] # "."
        THEN <<SubSeq(p, 1, d - 1), SubSeq(p, d, Len(p))>>
        ELSE <<p, EmptyStr>>

Stem(p) == splitext(p)[1]

Ext(p) == splitext(p)[2]

-----------------------------------------------------------------------------
(* Cells and rows *)

NaN == [t |-> "nan", v |-> EmptyStr]

StrCell(s) == [t |-> "str", v |-> s]

FloatCell(s) == [t |-> "float", v |-> s]

\* Python str(x) of a cell value: str(float('nan')) is 'nan', a float64
\* prints with its fractional part, a string is itself.
PyStr(c) ==
    CASE c.t = "nan" -> <<"n", "a", "n">>
      [] c.t = "float" -> c.v \o <<".", "0">>
      [] OTHER -> c.v

\* Series.replace('nan', ''): whole-value replacement.
ReplaceNan(s) == IF s = <<"n", "a", "n">> THEN EmptyStr ELSE s

\* df[col].astype(str).replace('nan', '').str.strip() on one cell.
ConvertRequired(c) == StrCell(strip(ReplaceNan(PyStr(c))))

NCols(t) == Len(t.hdr)

\* required_cols = df.columns[:3]: the first three columns, or all of them
\* when the table has fewer.
RequiredCols(n) == 1..(IF n < 3 THEN n ELSE 3)

\* The DataFrame after the loop over required_cols: the first three columns
\* rewritten, the others as read.  Each row keeps its index label.
ConvertedFrame(t) ==
    [k \in 1..Len(t.rows) |->
        [idx |-> k - 1,
         cells |-> [c \in 1..NCols(t) |->
                       IF c \in RequiredCols(NCols(t))
                       THEN ConvertRequired(t.rows[k][c])
                       ELSE t.rows[k][c]]]]

\* A mask built with any(axis=1) instead of all(axis=1).
AnyRequiredNonEmpty(r) ==
    \E c \in RequiredCols(Len(r.cells)) : r.cells[c].v # EmptyStr

\* df[required_cols].ne('').all(axis=1) for one row.
AllRequiredNonEmpty(r) ==
    \A c \in RequiredCols(Len(r.cells)) : r.cells[c].v # EmptyStr

\* adVideo_renamer.py: valid_rows.
RowFilter(t) == SelectSeq(ConvertedFrame(t), AllRequiredNonEmpty)

\* adVideo_metadataPrep.py: valid_rows.
PrepConvertRequired(c) == StrCell(strip(ReplaceNan(PyStr(c))))

PrepRowFilter(t) ==
    LET df == [k \in 1..Len(t.rows) |->
                 [idx |-> k - 1,
                  cells |-> [c \in 1..NCols(t) |->
                                IF c \in RequiredCols(NCols(t))
                                THEN PrepConvertRequired(t.rows[k][c])
                                ELSE t.rows[k][c]]]]
        keep(r) == \A c \in RequiredCols(NCols(t)) : r.cells[c].v # EmptyStr
    IN  SelectSeq(df, keep)

\* row.get(name, ""): the cell of the named column, "" when there is none.
ColumnOf(hdr, name) ==
    IF \E c \in 1..Len(hdr) : hdr[c] = name
    THEN CHOOSE c \in 1..Len(hdr) : hdr[c] = name
    ELSE 0

RowGet(hdr, r, name) ==
    IF ColumnOf(hdr, name) = 0 THEN StrCell(EmptyStr)
    ELSE r.cells[ColumnOf(hdr, name)]

\* desc = str(row.get("Description", "")).strip()
DescOf(hdr, r) == strip(PyStr(RowGet(hdr, r, "Description")))

\* ad_id = str(row.get("AD ID", "")).strip()
AdIdOf(hdr, r) == strip(PyStr(RowGet(hdr, r, "AD ID")))

\* if not desc or not ad_id
IsBlankRow(hdr, r) == DescOf(hdr, r) = EmptyStr \/ AdIdOf(hdr, r) = EmptyStr

\* new_stem = f"{desc}-{ad_id}"
NewStem(desc, ad_id) == desc \o <<"-">> \o ad_id

-----------------------------------------------------------------------------
(* Inputs: tables and folders the program may be started on *)

\* File names: a.m, a.v, a (no extension), a-1.m
NamePool ==
    { <<"a", ".", "m">>, <<"a", ".", "v">>, <<"a">>,
      <<"a", "-", "1", ".", "m">> }

FolderPool == {f \in SUBSET NamePool : Cardinality(f) <= MaxFiles}

\* (Description cell, AD ID cell) of a spreadsheet row.  An empty cell is
\* read as NaN; a numeric AD ID in a column with empty cells is a float64;
\* a cell may hold only a blank.
CellPairs ==
    { [d |-> StrCell(<<"a">>), a |-> StrCell(<<"1">>)],
      [d |-> StrCell(<<"a">>), a |-> FloatCell(<<"1">>)],
      [d |-> StrCell(<<"a", "-", "1">>), a |-> StrCell(<<"1">>)],
      [d |-> NaN, a |-> StrCell(<<"1">>)],
      [d |-> StrCell(<<" ">>), a |-> StrCell(<<"1">>)] }

HdrFirst == <<"Description", "AD ID", "Ad Name">>

HdrLater == <<"Ad Name", "Placement(s)", "Spot Running", "Description", "AD ID">>

HdrNoAdId == <<"Ad Name", "Description", "Placement(s)">>

HdrTwo == <<"Description", "AD ID">>

Headers == {HdrFirst, HdrLater, HdrNoAdId, HdrTwo}

MkRow(hdr, p) ==
    [c \in 1..Len(hdr) |->
        CASE hdr[c] = "Description" -> p.d
          [] hdr[c] = "AD ID" -> p.a
          [] OTHER -> StrCell(<<"x">>)]

RowPool(hdr) == {MkRow(hdr, p) : p \in CellPairs}

SeqsUpTo(S, n) == UNION {[1..k -> S] : k \in 0..n}

Tables ==
    UNION {{[hdr |-> h, rows |-> rs] : rs \in SeqsUpTo(RowPool(h), MaxRows)} :
           h \in Headers}

\* os.listdir(folder): the names in an arbitrary order.
Listings(fset) ==
    {o \in [1..Cardinality(fset) -> fset] :
        \A x, y \in 1..Cardinality(fset) : x # y => o[x] # o[y]}

NoPrev == [set |-> FALSE, renames |-> 0, failures |-> <<>>, log |-> <<>>]

\* An argparse option that was not given (None), and one given the text s.
NotGiven == [given |-> FALSE, v |-> EmptyStr]

Given(s) == [given |-> TRUE, v |-> s]

NoArgs == [wrike_link |-> NotGiven, year |-> NotGiven,
           sub_initiative |-> NotGiven, location_type |-> NotGiven]

NoOutFile == [written |-> FALSE, rows |-> <<>>]

\* The metadata export before it has done anything.
PrepIdle ==
    /\ prep_i = 0
    /\ output_data = <<>>
    /\ out_file = NoOutFile
    /\ prep_log = <<>>

\* No line held by a reader thread.
NoLine == [kind |-> "none"]

\* The UI before a script is run: the run button is shown and enabled, the
\* progress bar is hidden, no thread is started and no callback is queued.
GuiIdle ==
    [main |-> "ready", ctl |-> "none", child |-> "none", returncode |-> 0,
     streams |-> [out |-> <<>>, err |-> <<>>],
     rdr |-> [out |-> "idle", err |-> "idle"],
     hold |-> [out |-> NoLine, err |-> NoLine],
     queue |-> <<>>, button |-> "normal", wrapper_shown |-> TRUE,
     bar_shown |-> FALSE, bar_value |-> 0, logged |-> 0, applied |-> 0,
     completed |-> 0, success_calls |-> 0, error_calls |-> 0,
     scheduled |-> 0, scheduled_early |-> FALSE, late_update |-> FALSE]

\* The files the update loop checks on a platform that has no launcher in
\* the list.
FilesToCheck == <<"adVideo_renamer.py", "adVideo_metadataPrep.py">>

UpdFiles == {FilesToCheck[k] : k \in 1..Len(FilesToCheck)}

\* The update of the scripts before it is started: nothing on disk, nothing
\* counted.
UpdIdle ==
    [pc |-> "idle", k |-> 0, status |-> "",
     local |-> [f \in UpdFiles |-> "absent"],
     tmp |-> [f \in UpdFiles |-> "absent"],
     remote |-> [f \in UpdFiles |-> "v1"],
     local0 |-> [f \in UpdFiles |-> "absent"],
     updated_count |-> 0, downloaded_count |-> 0,
     skipped_count |-> 0, error_count |-> 0,
     returned |-> <<>>, removed_on_error |-> 0]

UiIdle ==
    /\ gui = GuiIdle
    /\ upd = UpdIdle

Init ==
    /\ table \in Tables
    /\ folder_exists \in BOOLEAN
    /\ folder \in (IF folder_exists THEN FolderPool ELSE {{}})
    /\ folder0 = folder
    /\ listdir_calls = 0
    /\ assets_is_downloads = FALSE
    /\ launch = "cli"
    /\ args = NoArgs
    /\ PrepIdle
    /\ UiIdle
    /\ progress = <<>>
    /\ pc = "start"
    /\ run = 1
    /\ valid_rows = <<>>
    /\ prep_valid_rows = <<>>
    /\ i = 0
    /\ successful_renames = 0
    /\ could_not_rename_files = <<>>
    /\ matched_spreadsheet_descriptions = {}
    /\ initial_files_in_folder = {}
    /\ files_in_folder_without_spreadsheet_match = {}
    /\ log = <<>>
    /\ prev = NoPrev

-----------------------------------------------------------------------------
(* The renamer *)

\* A column check that accepts a table of two columns.
TooFewColumnsBelowTwo(n) == n < 2

\* if len(df.columns) < 3
TooFewColumns(n) == n < 3

\* os.listdir(folder) raises FileNotFoundError when the folder does not
\* exist; main() does not catch it, so the interpreter ends with a traceback
\* and a non-zero status.
ListdirRaises(exists) == ~exists

\* main() up to the row loop: the column check, the filter, the early return
\* on no valid row, the counters and the snapshot of the folder.
Start ==
    /\ pc = "start"
    /\ IF TooFewColumns(NCols(table))
       THEN /\ pc' = "exit1"
            /\ UNCHANGED <<valid_rows, initial_files_in_folder, listdir_calls>>
       ELSE /\ valid_rows' = RowFilter(table)
            /\ IF RowFilter(table) = <<>>
               THEN /\ pc' = "done"
                    /\ UNCHANGED <<initial_files_in_folder, listdir_calls>>
               ELSE IF ListdirRaises(folder_exists)
               THEN /\ pc' = "crash"
                    /\ listdir_calls' = listdir_calls + 1
                    /\ UNCHANGED initial_files_in_folder
               ELSE /\ pc' = "rows"
                    /\ listdir_calls' = listdir_calls + 2
                    /\ initial_files_in_folder' = folder
    /\ i' = 0
    /\ successful_renames' = 0
    /\ could_not_rename_files' = <<>>
    /\ matched_spreadsheet_descriptions' = {}
    /\ files_in_folder_without_spreadsheet_match' = {}
    /\ log' = <<>>
    /\ progress' = <<>>
    /\ UNCHANGED <<table, folder, run, prep_valid_rows, prev, folder_exists,
                   envVars, prepVars>>

\* os.rename(src, dst) raises when the operating system refuses it: oserr is
\* the environment's choice (file in use, permission denied, and on Windows
\* a destination that already exists).
RenameRaises(fset, src, dst, oserr) == oserr

\* The folder after a successful os.rename(src, dst); on POSIX an existing
\* destination is silently replaced.
OsRename(fset, src, dst) == (fset \ {src}) \cup {dst}

\* A target name that assumes the extension instead of carrying it.
TargetNameAssumedExt(new_stem, ext_in_folder) == new_stem \o <<".", "m">>

\* dst = os.path.join(folder, new_stem + ext_in_folder), as a bare name.
TargetName(new_stem, ext_in_folder) == new_stem \o ext_in_folder

\* A matcher that accepts any stem the Description is a prefix of.
StemMatchesPrefix(filename, desc) ==
    /\ Len(Stem(filename)) >= Len(desc)
    /\ SubSeq(Stem(filename), 1, Len(desc)) = desc

\* stem_in_folder == desc
StemMatches(filename, desc) == Stem(filename) = desc

ErrorEntry(filename) == [kind |-> "error", text |-> filename]

NoFileEntry(desc) == [kind |-> "nofile", text |-> desc]

RECURSIVE Scan(_, _, _, _, _, _)

\* An except branch that goes on to the next listed file instead of leaving
\* the loop.
AfterRenameErrorRetry(fset, order, k, desc, new_stem, oserr) ==
    LET rest == Scan(fset, order, k + 1, desc, new_stem, oserr)
    IN  [rest EXCEPT !.found = TRUE,
                     !.outcome = IF rest.found THEN rest.outcome ELSE "error",
                     !.src = IF rest.found THEN rest.src ELSE order[k],
                     !.dst = IF rest.found THEN rest.dst
                             ELSE new_stem \o Ext(order[k]),
                     !.fails = <<ErrorEntry(order[k])>> \o rest.fails,
                     !.attempts = rest.attempts + 1]

\* An except branch that forgets found_match_in_folder = True.
AfterRenameErrorNotFound(fset, order, k, desc, new_stem, oserr) ==
    [found |-> FALSE, outcome |-> "error", src |-> order[k],
     dst |-> new_stem \o Ext(order[k]), folder |-> fset,
     fails |-> <<ErrorEntry(order[k])>>, attempts |-> 1]

\* An except branch that undoes the renames made so far.
AfterRenameErrorRollback(fset, order, k, desc, new_stem, oserr) ==
    [found |-> TRUE, outcome |-> "error", src |-> order[k],
     dst |-> new_stem \o Ext(order[k]), folder |-> initial_files_in_folder,
     fails |-> <<ErrorEntry(order[k])>>, attempts |-> 1]

\* The except branch: the file name is appended to could_not_rename_files,
\* found_match_in_folder is set and the loop over the listing is left.
AfterRenameError(fset, order, k, desc, new_stem, oserr) ==
    [found |-> TRUE, outcome |-> "error", src |-> order[k],
     dst |-> new_stem \o Ext(order[k]), folder |-> fset,
     fails |-> <<ErrorEntry(order[k])>>, attempts |-> 1]

\* The inner loop over os.listdir(folder) for one row, from position k of the
\* listing: stops at the first file whose stem is the Description.
Scan(fset, order, k, desc, new_stem, oserr) ==
    IF k > Len(order)
    THEN [found |-> FALSE, outcome |-> "nofile", src |-> EmptyStr,
          dst |-> EmptyStr, folder |-> fset, fails |-> <<>>, attempts |-> 0]
    ELSE IF StemMatches(order[k], desc)
         THEN LET src == order[k]
                  dst == TargetName(new_stem, Ext(order[k]))
              IN  IF src # dst
                  THEN IF RenameRaises(fset, src, dst, oserr)
                       THEN AfterRenameError(fset, order, k, desc, new_stem,
                                             oserr)
                       ELSE [found |-> TRUE, outcome |-> "renamed", src |-> src,
                             dst |-> dst, folder |-> OsRename(fset, src, dst),
                             fails |-> <<>>, attempts |-> 1]
                  ELSE [found |-> TRUE, outcome |-> "already", src |-> src,
                        dst |-> dst, folder |-> fset, fails |-> <<>>,
                        attempts |-> 0]
         ELSE Scan(fset, order, k + 1, desc, new_stem, oserr)

\* A progress line that counts from zero.
ProgressSignalZeroBased(idx, total_rows) ==
    [current |-> idx, total |-> total_rows]

\* print(f"PROGRESS:{i+1}/{total_rows}"), printed first in the loop body:
\* before the blank check, the listing and the rename of the row.
ProgressSignal(idx, total_rows) ==
    [current |-> idx + 1, total |-> total_rows]

\* A scan that reads the snapshot taken before the loop.
ListedFolderSnapshot(current, snapshot) == snapshot

\* for filename in os.listdir(folder): the folder is listed again for every
\* row, so the scan sees the folder as the earlier rows left it.
ListedFolder(current, snapshot) == current

\* One iteration of the loop over valid_rows.
ProcessRow ==
    /\ pc = "rows"
    /\ i < Len(valid_rows)
    /\ \E order \in Listings(ListedFolder(folder, initial_files_in_folder)),
          oserr \in BOOLEAN :
         LET row == valid_rows[i + 1]
             desc == DescOf(table.hdr, row)
             ad_id == AdIdOf(table.hdr, row)
             s == Scan(folder, order, 1, desc, NewStem(desc, ad_id), oserr)
             entry(o, r) == [idx |-> row.idx, desc |-> desc, ad_id |-> ad_id,
                             outcome |-> o, src |-> r.src, dst |-> r.dst,
                             before |-> folder, after |-> r.folder,
                             attempts |-> r.attempts]
         IN  IF IsBlankRow(table.hdr, row)
             THEN /\ log' = Append(log, entry("skipped",
                                [src |-> EmptyStr, dst |-> EmptyStr,
                                 folder |-> folder, attempts |-> 0]))
                  /\ UNCHANGED <<folder, successful_renames,
                                 could_not_rename_files,
                                 matched_spreadsheet_descriptions,
                                 listdir_calls>>
             ELSE /\ folder' = s.folder
                  /\ listdir_calls' = listdir_calls + 1
                  /\ successful_renames' =
                        IF s.outcome \in {"renamed", "already"}
                        THEN successful_renames + 1 ELSE successful_renames
                  /\ matched_spreadsheet_descriptions' =
                        IF s.outcome \in {"renamed", "already"}
                        THEN matched_spreadsheet_descriptions \cup {desc}
                        ELSE matched_spreadsheet_descriptions
                  /\ could_not_rename_files' =
                        IF s.found
                        THEN could_not_rename_files \o s.fails
                        ELSE Append(could_not_rename_files \o s.fails,
                                    NoFileEntry(desc))
                  /\ log' = Append(log, entry(s.outcome, s))
    /\ progress' = Append(progress,
                          [sig |-> ProgressSignal(i, Len(valid_rows)),
                           done |-> Len(log), folder |-> folder])
    /\ i' = i + 1
    /\ pc' = IF i + 1 = Len(valid_rows) THEN "summary" ELSE "rows"
    /\ UNCHANGED <<table, run, valid_rows, prep_valid_rows,
                   initial_files_in_folder,
                   files_in_folder_without_spreadsheet_match, prev,
                   folder_exists, envVars, prepVars>>

\* all_spreadsheet_descriptions
AllDescriptions(hdr, rows) ==
    {DescOf(hdr, rows[k]) : k \in 1..Len(rows)} \ {EmptyStr}

\* A report that looks only at the Descriptions that led to a rename.
UnmatchedFilesByMatched(initial, all, matched) ==
    {f \in initial : Stem(f) \notin matched}

\* The initial files reported as having no match in the spreadsheet.
UnmatchedFiles(initial, all, matched) ==
    {f \in initial : Stem(f) \notin all /\ Stem(f) \notin matched
                     /\ Stem(f) \notin all}

\* The final summary.
Summary ==
    /\ pc = "summary"
    /\ files_in_folder_without_spreadsheet_match' =
          UnmatchedFiles(initial_files_in_folder,
                         AllDescriptions(table.hdr, valid_rows),
                         matched_spreadsheet_descriptions)
    /\ pc' = "done"
    /\ listdir_calls' = listdir_calls + 1
    /\ UNCHANGED <<table, folder, run, valid_rows, prep_valid_rows, i,
                   successful_renames, could_not_rename_files,
                   matched_spreadsheet_descriptions, initial_files_in_folder,
                   log, prev, folder_exists, envVars, prepVars, progress>>

\* The script is started a second time on the same spreadsheet and folder.
Rerun ==
    /\ pc = "done"
    /\ run = 1
    /\ run' = 2
    /\ pc' = "start"
    /\ prev' = [set |-> TRUE, renames |-> successful_renames,
                failures |-> could_not_rename_files, log |-> log]
    /\ UNCHANGED <<table, folder, valid_rows, prep_valid_rows, i,
                   successful_renames, could_not_rename_files,
                   matched_spreadsheet_descriptions, initial_files_in_folder,
                   files_in_folder_without_spreadsheet_match, log,
                   folder_exists, envVars, listdir_calls, prepVars, progress>>

Next == Start \/ ProcessRow \/ Summary

Spec == Init /\ [][Next]_vars

NextRerun == Start \/ ProcessRow \/ Summary \/ Rerun

SpecRerun == Init /\ [][NextRerun]_vars

-----------------------------------------------------------------------------
(* The row filter on its own: both scripts applied to the same table *)

FilterCells == {NaN, StrCell(<<" ">>), StrCell(<<" ", "a", " ">>)}

HdrFilter == <<"Description", "AD ID", "Ad Name", "Year">>

\* Rows of four cells; the fourth column, which is not a required one, is
\* always empty.
FilterRowPool ==
    {[c \in 1..4 |-> IF c = 4 THEN NaN ELSE f[c]] : f \in [1..3 -> FilterCells]}

FilterTables ==
    {[hdr |-> HdrFilter, rows |-> rs] : rs \in SeqsUpTo(FilterRowPool, MaxFilterRows)}

InitFilter ==
    /\ table \in FilterTables
    /\ folder = {}
    /\ folder_exists = TRUE
    /\ folder0 = folder
    /\ listdir_calls = 0
    /\ assets_is_downloads = FALSE
    /\ launch = "cli"
    /\ args = NoArgs
    /\ PrepIdle
    /\ UiIdle
    /\ progress = <<>>
    /\ pc = "filter"
    /\ run = 1
    /\ valid_rows = <<>>
    /\ prep_valid_rows = <<>>
    /\ i = 0
    /\ successful_renames = 0
    /\ could_not_rename_files = <<>>
    /\ matched_spreadsheet_descriptions = {}
    /\ initial_files_in_folder = {}
    /\ files_in_folder_without_spreadsheet_match = {}
    /\ log = <<>>
    /\ prev = NoPrev

\* adVideo_renamer.py computes valid_rows.
FilterRenamer ==
    /\ pc = "filter"
    /\ valid_rows' = RowFilter(table)
    /\ pc' = "filter_prep"
    /\ UNCHANGED <<table, folder, run, prep_valid_rows, i, successful_renames,
                   could_not_rename_files, matched_spreadsheet_descriptions,
                   initial_files_in_folder,
                   files_in_folder_without_spreadsheet_match, log, prev,
                   folder_exists, envVars, listdir_calls, prepVars, progress>>

\* adVideo_metadataPrep.py computes valid_rows.
FilterPrep ==
    /\ pc = "filter_prep"
    /\ prep_valid_rows' = PrepRowFilter(table)
    /\ pc' = "filtered"
    /\ UNCHANGED <<table, folder, run, valid_rows, i, successful_renames,
                   could_not_rename_files, matched_spreadsheet_descriptions,
                   initial_files_in_folder,
                   files_in_folder_without_spreadsheet_match, log, prev,
                   folder_exists, envVars, listdir_calls, prepVars, progress>>

NextFilter == FilterRenamer \/ FilterPrep

SpecFilter == InitFilter /\ [][NextFilter]_vars

-----------------------------------------------------------------------------
(* The metadata export: text helpers *)

\* sub in s
Contains(s, sub) ==
    \E k \in 1..(Len(s) - Len(sub) + 1) : SubSeq(s, k, k + Len(sub) - 1) = sub

\* s.find(sub) as a 1-based index, 0 when sub does not occur in s.
Find(s, sub) ==
    LET at == {k \in 1..(Len(s) - Len(sub) + 1) :
                  SubSeq(s, k, k + Len(sub) - 1) = sub}
    IN  IF at = {} THEN 0 ELSE CHOOSE k \in at : \A j \in at : k <= j

\* s.split(sep)[0]
BeforeFirst(s, sep) ==
    IF Find(s, sep) = 0 THEN s ELSE SubSeq(s, 1, Find(s, sep) - 1)

\* s.split(sep, 1)[1], for an s that holds sep
AfterFirst(s, sep) == SubSeq(s, Find(s, sep) + Len(sep), Len(s))

LowerCase ==
    <<"a", "b", "c", "d", "e", "f", "g", "h", "i", "j", "k", "l", "m",
      "n", "o", "p", "q", "r", "s", "t", "u", "v", "w", "x", "y", "z">>

UpperCase ==
    <<"A", "B", "C", "D", "E", "F", "G", "H", "I", "J", "K", "L", "M",
      "N", "O", "P", "Q", "R", "S", "T", "U", "V", "W", "X", "Y", "Z">>

\* str.upper()
upper(s) ==
    [k \in 1..Len(s) |->
        IF \E n \in 1..Len(LowerCase) : LowerCase[n] = s[k]
        THEN UpperCase[CHOOSE n \in 1..Len(LowerCase) : LowerCase[n] = s[k]]
        ELSE s[k]]

\* str.lstrip('.')
RECURSIVE lstrip_dots(_)
lstrip_dots(s) == IF s # <<>> /\ Head(s) = "." THEN lstrip_dots(Tail(s)) ELSE s

\* s.endswith(".0")
EndsWithDotZero(s) ==
    Len(s) >= 2 /\ s[Len(s) - 1] = "." /\ s[Len(s)] = "0"

\* A normalisation by s.rstrip('.0'), which removes every trailing '.' and
\* '0' instead of the one suffix.
RECURSIVE rstrip_dot_zero(_)
rstrip_dot_zero(s) ==
    IF s # <<>> /\ s[Len(s)] \in {".", "0"}
    THEN rstrip_dot_zero(SubSeq(s, 1, Len(s) - 1)) ELSE s

parse_year_rstrip(value) ==
    IF value.t = "nan" THEN EmptyStr ELSE rstrip_dot_zero(strip(PyStr(value)))

\* parse_year_from_value(value): value is a cell or, for the override, a text.
parse_year_from_value(value) ==
    IF value.t = "nan" THEN EmptyStr
    ELSE LET s == strip(PyStr(value))
         IN  IF EndsWithDotZero(s) THEN SubSeq(s, 1, Len(s) - 2) ELSE s

\* parse_expiration(s): the text after the first '-', else the first word.
parse_expiration(value) ==
    IF value.t # "str" THEN EmptyStr
    ELSE LET s == strip(value.v)
         IN  IF Contains(s, <<"-">>) THEN strip(AfterFirst(s, <<"-">>))
             ELSE IF s # EmptyStr THEN BeforeFirst(s, <<" ">>) ELSE EmptyStr

\* entry["Asset Type"]
AssetTypeDefault ==
    << "F", "i", "n", "a", "l", " ", "C", "r", "e", "a", "t", "i", "v",
       "e", " ", "M", "a", "t", "e", "r", "i", "a", "l", "s" >>

\* entry["Asset Sub-Type"]
AssetSubTypeDefault ==
    << "A", "d", " ", "V", "i", "d", "e", "o" >>

\* entry["Asset Status"]
AssetStatusDefault ==
    << "F", "i", "n", "a", "l" >>

\* entry["Usage Rights"]
UsageRightsDefault ==
    << "A", "p", "p", "r", "o", "v", "e", "d", " ", "f", "o", "r", " ",
       "E", "x", "t", "e", "r", "n", "a", "l", " ", "U", "s", "a", "g", "e" >>

\* entry["User Status"]
UserStatusDefault ==
    << "P", "l", "e", "a", "s", "e", " ", "r", "e", "v", "i", "e", "w",
       " ", "m", "e", "t", "a", "d", "a", "t", "a" >>

\* entry["Initiative"]
InitiativeDefault ==
    << "P", "r", "o", "m", "o", "s" >>

\* the text looked for in the Ad Name
AnimationMarker ==
    << "(", "A", "n", "i", "m", "a", "t", "i", "o", "n", ")" >>

\* entry["Video Type"] of an animation
VideoTypeAnimation ==
    << "A", "n", "i", "m", "a", "t", "i", "o", "n" >>

\* entry["Video Type"] otherwise
VideoTypeLiveAction ==
    << "L", "i", "v", "e", " ", "A", "c", "t", "i", "o", "n" >>

\* the separator of ad_name.split
SpanishSuffix ==
    << " ", "(", "S", "p", "a", "n", "i", "s", "h", ")" >>

\* the text looked for by the Language rule
SpanishMarker ==
    << "S", "p", "a", "n", "i", "s", "h" >>

\* entry["Language"] otherwise
LanguageEnglish ==
    << "E", "n", "g", "l", "i", "s", "h" >>

\* a Video Focus that stands for none
FocusPlaceholder ==
    << "_", "_", "_", "_" >>

\* TRT of a six-second spot
Seconds06 ==
    << "0", "6", " ", "s", "e", "c", "o", "n", "d", "s" >>

\* TRT of a fifteen-second spot
Seconds15 ==
    << "1", "5", " ", "s", "e", "c", "o", "n", "d", "s" >>

\* TRT of a thirty-second spot
Seconds30 ==
    << "3", "0", " ", "s", "e", "c", "o", "n", "d", "s" >>

\* the name of the CSV, without its timestamp
SaveName ==
    << "a", "d", "V", "i", "d", "e", "o", "_", "m", "e", "t", "a", "d",
       "a", "t", "a", "P", "r", "e", "p", "p", "e", "d", ".", "c", "s", "v" >>

\* A mapping that turns every ':NN' into 'NN seconds'.
TrtMapAnySeconds(trt_val) ==
    IF Len(trt_val) = 3 /\ trt_val[1] = ":"
    THEN SubSeq(trt_val, 2, 3) \o <<" ", "s", "e", "c", "o", "n", "d", "s">>
    ELSE trt_val

\* Total Run Time (TRT) conversion
TrtMap(trt_val) ==
    IF trt_val = <<":", "0", "6">> THEN Seconds06
    ELSE IF trt_val = <<":", "1", "5">> THEN Seconds15
    ELSE IF trt_val = <<":", "3", "0">> THEN Seconds30
    ELSE trt_val

\* headers: the columns of the export, in order
headers ==
    <<
      "filename", "name", "description", "Asset Type", "Asset Sub-Type",
      "Deliverable", "Product SKU", "Product SKU Position", "Asset Status",
      "Usage Rights", "tags", "File Type", "STEP Path",
      "Link to Wrike Project", "Sync to Site",
      "Generic Dimension Diagram With Measurements", "Admin Status",
      "Product Status", "Product Category", "Product Sub-Category",
      "Product Collection", "Component SKUs",
      "Stock Level (only relevant for Inline products)",
      "Restock Date (only relevant for Inline products)",
      "Link to Print Materials", "Link to Lifestyle Images",
      "Link to Store Images", "Initiative", "Sub-Initiative",
      "Print Tracking Code", "Print Tracking - Start Date",
      "Print Tracking - End Date", "Year", "Video Expiration",
      "Audio Licensing Expiration", "Ad ID", "Lead Offer Message",
      "Lead Finance Message", "Video Focus", "Video Objective",
      "Video Type", "Total Run Time (TRT)", "Spot Running (MM/DD/YYYY)",
      "Language", "Season", "Holiday/Special Occasion", "Talent",
      "Sunset Date (MM/DD/YYYY)", "Location Name", "Store Code",
      "Location Status", "Location Address", "Location Town",
      "Location State", "Location Zip Code", "Location Phone Number",
      "Location Type", "Location", "Inactive Product", "Partner", "Notes",
      "Sign Facade Color", "Sign Location", "Sign Color", "Sign Text",
      "Reviewed products in lifestyle", "Reviewed Studio Uploads",
      "Featured SKU", "Image Type", "scratchpad",
      "3D Model Source Files Acquired", "Visible to", "BynderTest",
      "dim_Length", "Bynder Report", "Dimensions", "dim_Height",
      "Figmage doc id", "dim_Width", "Figmage image extension",
      "Figmage node id", "Figmage page id", "Performance Metric",
      "DNUCampaign", "DNUFeatures", "DNUMaterials", "DNUStyle",
      "DNUPattern", "DNUPackage SKUs", "DNUSign Size",
      "DNUDistribution Channel", "Dim diagram re-cropped",
      "Embedded Instructions (for updating existing metadata based on automations)",
      "Mattress Size", "Asset Identifier", "Sync Batch",
      "Marked for Deletion from Site", "scene7 folder", "Variant Type",
      "Source", "PSA Image Type", "Rights Notes", "Workflow",
      "Workflow Status", "Product Name (STEP)", "Vendor Code",
      "Family Code", "Hero SKU", "Product Color", "Dropped",
      "Visible on Website", "Sales Channel", "Associated Materials Status",
      "Product in Studio", "DNU_PromoUpdate2",
      "Additional Files Upload Scratchpad", "Bump",
      "Carousel Dimensions Diagram Audit", "User Status",
      "Reviewed for Site Content Refresh", "Image Type Pre-Classification"
    >>

HeaderSet == {headers[c] : c \in 1..Len(headers)}

\* allowed_exts
allowed_exts ==
    {
      <<"A", "I">>, <<"A", "V", "I">>, <<"C", "R", "2">>,
      <<"C", "S", "S">>, <<"D", "O", "C">>, <<"D", "O", "C", "X">>,
      <<"E", "P", "S">>, <<"G", "I", "F">>, <<"G", "L", "B">>,
      <<"H", "T", "M", "L">>, <<"I", "D", "M", "L">>,
      <<"I", "N", "D", "D">>, <<"J", "F", "I", "F">>,
      <<"J", "P", "E", "G">>, <<"M", "K", "V">>, <<"M", "O", "V">>,
      <<"M", "P", "3">>, <<"M", "P", "4">>, <<"O", "T", "F">>,
      <<"P", "D", "F">>, <<"P", "N", "G">>, <<"P", "P", "T">>,
      <<"W", "E", "B", "M">>
    }

\* if args.<option>: None and '' are both false.
Truthy(a) == a.given /\ a.v # EmptyStr

\* str(row.get(name, "")).strip()
RowText(hdr, r, name) == strip(PyStr(RowGet(hdr, r, name)))

\* The first listed name whose stem is new_stem, None (here the empty text,
\* which no file name is) when there is none.
RECURSIVE FindMatch(_, _, _)
FindMatch(order, k, new_stem) ==
    IF k > Len(order) THEN EmptyStr
    ELSE IF Stem(order[k]) = new_stem THEN order[k]
    ELSE FindMatch(order, k + 1, new_stem)

\* A test that never finds the match missing.
NoMatchNever(match_file) == FALSE

\* if not match_file
NoMatch(match_file) == match_file = EmptyStr

\* if args.<option>: entry[...] = args.<option>  else: the row's value
Override(a, row_value) == IF Truthy(a) THEN a.v ELSE row_value

\* The export record of one row with its matched file.
ExportEntry(hdr, row, a, match_file) ==
    LET ext == upper(lstrip_dots(Ext(match_file)))
        file_type == IF ext \in allowed_exts THEN ext ELSE EmptyStr
        spot == RowText(hdr, row, "Spot Running")
        ad_name == RowText(hdr, row, "Ad Name")
        ad_id == AdIdOf(hdr, row)
        video_focus == strip(BeforeFirst(ad_name, SpanishSuffix))
        raw_ad_name == RowGet(hdr, row, "Ad Name")
        is_animation == /\ ColumnOf(hdr, "Ad Name") # 0
                        /\ raw_ad_name.t = "str"
                        /\ Contains(raw_ad_name.v, AnimationMarker)
    IN  [h \in HeaderSet |->
          CASE h = "filename" -> match_file
            [] h = "File Type" -> file_type
            [] h = "Asset Type" -> AssetTypeDefault
            [] h = "Asset Sub-Type" -> AssetSubTypeDefault
            [] h = "Asset Status" -> AssetStatusDefault
            [] h = "Usage Rights" -> UsageRightsDefault
            [] h = "User Status" -> UserStatusDefault
            [] h = "Initiative" -> InitiativeDefault
            [] h = "Video Type" ->
                 IF is_animation THEN VideoTypeAnimation
                 ELSE VideoTypeLiveAction
            [] h = "Link to Wrike Project" ->
                 Override(a.wrike_link,
                          RowText(hdr, row, "Link to Wrike Project"))
            [] h = "Year" ->
                 IF Truthy(a.year)
                 THEN parse_year_from_value(StrCell(a.year.v))
                 ELSE parse_year_from_value(RowGet(hdr, row, "Year"))
            [] h = "Sub-Initiative" ->
                 Override(a.sub_initiative, RowText(hdr, row, "Sub-Initiative"))
            [] h = "Location Type" ->
                 Override(a.location_type, RowText(hdr, row, "Location Type"))
            [] h = "Deliverable" -> RowText(hdr, row, "Placement(s)")
            [] h = "Spot Running (MM/DD/YYYY)" -> spot
            [] h = "Video Expiration" -> parse_expiration(StrCell(spot))
            [] h = "Ad ID" -> ad_id
            [] h = "Lead Offer Message" ->
                 RowText(hdr, row, "Lead Offer Message")
            [] h = "Lead Finance Message" ->
                 RowText(hdr, row, "Lead Finance Message")
            [] h = "Video Focus" ->
                 IF video_focus # FocusPlaceholder THEN video_focus
                 ELSE EmptyStr
            [] h = "Video Objective" -> RowText(hdr, row, "Objective")
            [] h = "Total Run Time (TRT)" -> TrtMap(RowText(hdr, row, "TRT"))
            [] h = "Language" ->
                 IF Contains(ad_name, SpanishMarker) THEN SpanishMarker
                 ELSE LanguageEnglish
            [] OTHER -> EmptyStr]

-----------------------------------------------------------------------------
(* The metadata export: inputs *)

\* A table with every column the export consumes, and one with none of the
\* optional ones.
HdrFields ==
    <<"Description", "AD ID", "Ad Name", "Year", "TRT",
      "Link to Wrike Project", "Sub-Initiative", "Location Type",
      "Placement(s)", "Objective", "Spot Running", "Lead Offer Message",
      "Lead Finance Message">>

HdrFieldsMin == <<"Description", "AD ID", "Ad Name">>

FieldColumns == {HdrFields[c] : c \in 1..Len(HdrFields)}

\* A row that matches the file a-1.mp4 and has a plain text in every column.
BaseProfile ==
    [c \in FieldColumns |->
        CASE c = "Description" -> StrCell(<<"a">>)
          [] c = "AD ID" -> StrCell(<<"1">>)
          [] OTHER -> StrCell(<<"x">>)]

\* The cells tried in one column while the others keep their base value:
\* years as text and as float64, run times, ad names with and without the
\* Spanish suffix, spot ranges, padded texts, empty cells.
FieldCells(c) ==
    CASE c = "Year" ->
           { StrCell(<<"2", "4">>), StrCell(<<"2", "0", ".", "0">>),
             FloatCell(<<"2", "4">>), StrCell(<<" ", "2", "4", " ">>), NaN }
      [] c = "TRT" ->
           { StrCell(<<":", "0", "6">>), StrCell(<<":", "1", "5">>),
             StrCell(<<":", "3", "0">>), StrCell(<<":", "0", "7">>),
             StrCell(<<" ", ":", "0", "6">>), NaN }
      [] c = "Ad Name" ->
           { StrCell(<<"x">> \o SpanishSuffix),
             StrCell(<<"x">> \o SpanishSuffix \o <<" ", "y">>),
             StrCell(FocusPlaceholder),
             StrCell(FocusPlaceholder \o SpanishSuffix),
             StrCell(<<"x", " ">> \o SpanishSuffix) }
      [] c = "Spot Running" ->
           { StrCell(<<"1", " ", "-", " ", "2">>),
             StrCell(<<"1", "-", "2", "-", "3">>),
             StrCell(<<"1", " ", "2">>), StrCell(<<" ", "1">>), NaN }
      [] c \in {"Description", "AD ID"} -> {}
      [] OTHER -> { StrCell(<<" ", "y", " ">>), NaN }

FieldProfiles ==
    {BaseProfile} \cup
    UNION {{[BaseProfile EXCEPT ![c] = v] : v \in FieldCells(c)} :
           c \in FieldColumns}

FieldTables ==
    {[hdr |-> h, rows |-> <<[c \in 1..Len(h) |-> p[h[c]]]>>] :
        h \in {HdrFields, HdrFieldsMin}, p \in FieldProfiles}

\* The folder of the single-row tables: the row's file, as an MP4.
FieldFolder == { <<"a", "-", "1", ".", "m", "p", "4">> }

\* What may be typed for an override: blanks only, a padded text, and for
\* the year a number with and without '.0'.
OverrideTexts(f) ==
    IF f = "year"
    THEN { <<" ">>, <<"2", "5">>, <<"2", "0", ".", "0">> }
    ELSE { <<" ">>, <<" ", "z">> }

ArgNames == {"wrike_link", "year", "sub_initiative", "location_type"}

\* Command lines: no override, one override, or all four.
ArgSets ==
    {NoArgs, [f \in ArgNames |-> Given(<<"z">>)]} \cup
    UNION {{[NoArgs EXCEPT ![f] = Given(v)] : v \in OverrideTexts(f)} :
           f \in ArgNames}

\* AdVideoApp._run_bynder_video_metadata_export: each entry box is read
\* with .get().strip() and its option is passed only when text is left.
UiArgs(typed) ==
    [f \in ArgNames |->
        IF typed[f].given /\ strip(typed[f].v) # EmptyStr
        THEN Given(strip(typed[f].v)) ELSE NotGiven]

\* The export is started either on a table and folder as the renamer is, the
\* folder possibly being the Downloads directory, or on a single-row table
\* with overrides, from the command line or from the UI.
InitPrep ==
    /\ \/ /\ table \in Tables
          /\ folder_exists \in BOOLEAN
          /\ folder \in (IF folder_exists THEN FolderPool ELSE {{}})
          /\ assets_is_downloads \in BOOLEAN
          /\ launch = "cli"
          /\ args = NoArgs
       \/ /\ table \in FieldTables
          /\ folder_exists = TRUE
          /\ folder = FieldFolder
          /\ assets_is_downloads = FALSE
          /\ launch \in {"ui", "cli"}
          /\ args \in (IF launch = "ui" THEN {UiArgs(t) : t \in ArgSets}
                       ELSE ArgSets)
    /\ folder0 = folder
    /\ listdir_calls = 0
    /\ PrepIdle
    /\ UiIdle
    /\ progress = <<>>
    /\ pc = "prep_start"
    /\ run = 1
    /\ valid_rows = <<>>
    /\ prep_valid_rows = <<>>
    /\ i = 0
    /\ successful_renames = 0
    /\ could_not_rename_files = <<>>
    /\ matched_spreadsheet_descriptions = {}
    /\ initial_files_in_folder = {}
    /\ files_in_folder_without_spreadsheet_match = {}
    /\ log = <<>>
    /\ prev = NoPrev

-----------------------------------------------------------------------------
(* The metadata export: main() *)

\* if len(df.columns) < 3
PrepTooFewColumns(n) == n < 3

\* main() up to the row loop: the column check, the filter, the early return
\* on no valid row, and the Downloads directory made if it is missing.
PrepStart ==
    /\ pc = "prep_start"
    /\ IF PrepTooFewColumns(NCols(table))
       THEN /\ pc' = "prep_exit1"
            /\ UNCHANGED <<prep_valid_rows, folder_exists>>
       ELSE /\ prep_valid_rows' = PrepRowFilter(table)
            /\ IF PrepRowFilter(table) = <<>>
               THEN /\ pc' = "prep_done"
                    /\ UNCHANGED folder_exists
               ELSE /\ pc' = "prep_rows"
                    /\ folder_exists' = (folder_exists \/ assets_is_downloads)
    /\ UNCHANGED <<table, folder, renVars, folder0, listdir_calls,
                   assets_is_downloads, launch, args, prepVars, progress,
                   gui, upd>>

\* print(f"PROGRESS:{i+1}/{total_rows}"), printed first in the loop body.
PrepProgressSignal(idx, total_rows) ==
    [current |-> idx + 1, total |-> total_rows]

\* One iteration of the loop over valid_rows.
PrepRow ==
    /\ pc = "prep_rows"
    /\ prep_i < Len(prep_valid_rows)
    /\ LET row == prep_valid_rows[prep_i + 1]
           desc == DescOf(table.hdr, row)
           ad_id == AdIdOf(table.hdr, row)
           new_stem == NewStem(desc, ad_id)
           rec(o, m) == [idx |-> row.idx, desc |-> desc, ad_id |-> ad_id,
                         outcome |-> o, match |-> m, listed |-> folder]
           next_pc == IF prep_i + 1 = Len(prep_valid_rows)
                      THEN "prep_write" ELSE "prep_rows"
       IN  IF IsBlankRow(table.hdr, row)
           THEN /\ prep_log' = Append(prep_log, rec("skipped", EmptyStr))
                /\ pc' = next_pc
                /\ UNCHANGED <<output_data, listdir_calls>>
           ELSE IF ListdirRaises(folder_exists)
           THEN /\ prep_log' = Append(prep_log, rec("crash", EmptyStr))
                /\ pc' = "prep_crash"
                /\ listdir_calls' = listdir_calls + 1
                /\ UNCHANGED output_data
           ELSE \E order \in Listings(folder) :
                  LET match_file == FindMatch(order, 1, new_stem)
                  IN  /\ listdir_calls' = listdir_calls + 1
                      /\ pc' = next_pc
                      /\ IF NoMatch(match_file)
                         THEN /\ prep_log' =
                                    Append(prep_log, rec("nomatch", EmptyStr))
                              /\ UNCHANGED output_data
                         ELSE /\ prep_log' =
                                    Append(prep_log, rec("emitted", match_file))
                              /\ output_data' =
                                    Append(output_data,
                                           ExportEntry(table.hdr, row, args,
                                                       match_file))
    /\ progress' = Append(progress,
                          [sig |-> PrepProgressSignal(prep_i,
                                                      Len(prep_valid_rows)),
                           done |-> Len(prep_log), folder |-> folder])
    /\ prep_i' = prep_i + 1
    /\ UNCHANGED <<table, folder, prep_valid_rows, renVars, folder_exists,
                   envVars, out_file>>

\* An export written next to the assets.
FolderAfterWriteInFolder(fset, in_downloads) == fset \cup {SaveName}

\* The assets folder once the CSV is written to the Downloads directory.
FolderAfterWrite(fset, in_downloads) ==
    IF in_downloads THEN fset \cup {SaveName} ELSE fset

\* A frame whose columns come out in the reverse of the header order.
CsvRowsReversed(data) ==
    [k \in 1..Len(data) |->
        [c \in 1..Len(headers) |-> data[k][headers[Len(headers) + 1 - c]]]]

\* pd.DataFrame(output_data, columns=headers): one row of values per record,
\* in the order of headers.
CsvRows(data) ==
    [k \in 1..Len(data) |-> [c \in 1..Len(headers) |-> data[k][headers[c]]]]

\* out_df.to_csv(save_path, sep=';', index=False)
PrepWrite ==
    /\ pc = "prep_write"
    /\ out_file' = [written |-> TRUE, rows |-> CsvRows(output_data)]
    /\ folder' = FolderAfterWrite(folder, assets_is_downloads)
    /\ pc' = "prep_done"
    /\ UNCHANGED <<table, progress, prep_valid_rows, renVars, folder_exists, envVars,
                   listdir_calls,
                   prep_i, output_data, prep_log>>

NextPrep == PrepStart \/ PrepRow \/ PrepWrite

SpecPrep == InitPrep /\ [][NextPrep]_vars

\* The metadata export is started on the spreadsheet and the folder the
\* renamer has just finished with.
RunExportAfterRenamer ==
    /\ pc = "done"
    /\ pc' = "prep_start"
    /\ progress' = <<>>
    /\ UNCHANGED <<table, folder, prep_valid_rows, renVars, folder_exists,
                   envVars, listdir_calls, prepVars>>

NextPipeline == Next \/ RunExportAfterRenamer \/ NextPrep

SpecPipeline == Init /\ [][NextPipeline]_vars

\* Either script, started on any of its inputs.
InitScripts == Init \/ InitPrep

NextScripts == Next \/ NextPrep

SpecScripts == InitScripts /\ [][NextScripts]_vars

-----------------------------------------------------------------------------
(* The UI: one script run with a progress bar *)

\* What a script may print: a "PROGRESS:c/t" line or any other line.
ProgressLine(c, t) == [kind |-> "progress", current |-> c, total |-> t]

PlainLine == [kind |-> "plain"]

\* The lines of the child's stdout and of its stderr, each in its order.
\* read_stream parses either stream the same way.
StdoutPool ==
    {<<>>, <<ProgressLine(1, 1)>>, <<PlainLine, ProgressLine(1, 2)>>,
     <<ProgressLine(1, 2), ProgressLine(2, 2)>>}

StderrPool == {<<>>, <<PlainLine>>, <<ProgressLine(1, 1)>>}

\* Everything but the UI is at rest while the UI is looked at on its own.
ScriptsNotStarted ==
    /\ table = [hdr |-> HdrFirst, rows |-> <<>>]
    /\ folder = {}
    /\ folder_exists = TRUE
    /\ folder0 = folder
    /\ listdir_calls = 0
    /\ assets_is_downloads = FALSE
    /\ launch = "ui"
    /\ args = NoArgs
    /\ PrepIdle
    /\ progress = <<>>
    /\ pc = "ui"
    /\ run = 1
    /\ valid_rows = <<>>
    /\ prep_valid_rows = <<>>
    /\ i = 0
    /\ successful_renames = 0
    /\ could_not_rename_files = <<>>
    /\ matched_spreadsheet_descriptions = {}
    /\ initial_files_in_folder = {}
    /\ files_in_folder_without_spreadsheet_match = {}
    /\ log = <<>>
    /\ prev = NoPrev

InitGui ==
    /\ ScriptsNotStarted
    /\ upd = UpdIdle
    /\ \E o \in StdoutPool, e \in StderrPool :
          gui = [GuiIdle EXCEPT !.streams = [out |-> o, err |-> e]]

\* widget.after(0, callback): the callback joins the event queue of the
\* Tk main loop, behind the callbacks queued before it.
After(queue, callback) == Append(queue, callback)

UiUnchanged == UNCHANGED <<table, folder, pc, prep_valid_rows, renVars,
                           folder_exists, folder0, listdir_calls,
                           assets_is_downloads, launch, args, prepVars,
                           progress, upd>>

\* _run_video_renamer_script on the main thread: the run button is
\* disabled, _prepare_progress_ui is called, then _run_script_with_progress
\* queues _prepare_progress_ui once more and starts the worker thread.
GuiRun ==
    /\ gui.main = "ready"
    /\ gui.button = "normal"
    /\ gui' = [gui EXCEPT !.main = "launched",
                          !.button = "disabled",
                          !.wrapper_shown = FALSE,
                          !.bar_shown = TRUE,
                          !.bar_value = 0,
                          !.queue = After(@, [cb |-> "prepare"]),
                          !.ctl = "popen"]
    /\ UiUnchanged

\* subprocess.Popen in _read_output_thread: the child runs and both reader
\* threads are started, or the launch raises.
CtlPopen ==
    /\ gui.ctl = "popen"
    /\ \/ gui' = [gui EXCEPT !.child = "running",
                             !.rdr = [out |-> "read", err |-> "read"],
                             !.ctl = "join_out"]
       \/ gui' = [gui EXCEPT !.ctl = "except"]
    /\ UiUnchanged

\* The child ends with an exit code; its pipes reach end of file once the
\* lines it wrote are read.
ChildExit ==
    /\ gui.child = "running"
    /\ \E code \in {0, 1} :
          gui' = [gui EXCEPT !.child = "exited", !.returncode = code]
    /\ UiUnchanged

\* read_stream: one line is read and queued for the log widget.
ReadLine(s) ==
    /\ gui.rdr[s] = "read"
    /\ gui.streams[s] # <<>>
    /\ LET line == Head(gui.streams[s])
       IN  gui' = [gui EXCEPT
                     !.streams[s] = Tail(@),
                     !.queue = After(@, [cb |-> "log"]),
                     !.hold[s] = line,
                     !.rdr[s] = IF line.kind = "progress"
                                THEN "progress" ELSE "read"]
    /\ UiUnchanged

\* read_stream: the line read starts with "PROGRESS:", its update is queued.
ReadProgress(s) ==
    /\ gui.rdr[s] = "progress"
    /\ gui' = [gui EXCEPT
                 !.queue = After(@, [cb |-> "update",
                                     current |-> gui.hold[s].current,
                                     total |-> gui.hold[s].total]),
                 !.hold[s] = NoLine,
                 !.rdr[s] = "read"]
    /\ UiUnchanged

\* read_stream: end of file, the stream is closed and the thread ends.
ReadEof(s) ==
    /\ gui.rdr[s] = "read"
    /\ gui.streams[s] = <<>>
    /\ gui.child = "exited"
    /\ gui' = [gui EXCEPT !.rdr[s] = "done"]
    /\ UiUnchanged

ReaderStep == \E s \in {"out", "err"} : ReadLine(s) \/ ReadProgress(s) \/ ReadEof(s)

\* A reader thread that is started and has not ended.
Reading(state) == state \in {"read", "progress"}

\* A join that returns at once.
ReaderJoinedNotWaiting(state) == TRUE

\* thread.join() returns when the thread has ended.
ReaderJoined(state) == state = "done"

\* stdout_thread.join()
CtlJoinOut ==
    /\ gui.ctl = "join_out"
    /\ ReaderJoined(gui.rdr.out)
    /\ gui' = [gui EXCEPT !.ctl = "join_err"]
    /\ UiUnchanged

\* stderr_thread.join()
CtlJoinErr ==
    /\ gui.ctl = "join_err"
    /\ ReaderJoined(gui.rdr.err)
    /\ gui' = [gui EXCEPT !.ctl = "wait"]
    /\ UiUnchanged

\* The completion handler is queued with the outcome of the run.
ScheduleComplete(g, success) ==
    [g EXCEPT !.queue = After(@, [cb |-> "complete", success |-> success]),
              !.scheduled = @ + 1,
              !.scheduled_early = @ \/ Reading(g.rdr.out) \/ Reading(g.rdr.err),
              !.ctl = "finished"]

\* process.wait(), success = (process.returncode == 0), and the completion
\* handler queued.
CtlWait ==
    /\ gui.ctl = "wait"
    /\ gui.child = "exited"
    /\ gui' = ScheduleComplete(gui, gui.returncode = 0)
    /\ UiUnchanged

\* except FileNotFoundError / except Exception: the error is queued for the
\* log widget.
CtlExceptLog ==
    /\ gui.ctl = "except"
    /\ gui' = [gui EXCEPT !.queue = After(@, [cb |-> "log"]),
                          !.ctl = "except_complete"]
    /\ UiUnchanged

\* except ...: the completion handler is queued with success = False.
CtlExceptComplete ==
    /\ gui.ctl = "except_complete"
    /\ gui' = ScheduleComplete(gui, FALSE)
    /\ UiUnchanged

CtlStep ==
    \/ CtlPopen
    \/ CtlJoinOut
    \/ CtlJoinErr
    \/ CtlWait
    \/ CtlExceptLog
    \/ CtlExceptComplete

\* percentage = (current / total) * 100, as the bar shows it
Percentage(current, total) == (current * 100) \div total

\* _prepare_progress_ui
PrepareProgressUi(g) ==
    [g EXCEPT !.wrapper_shown = FALSE, !.bar_shown = TRUE, !.bar_value = 0]

\* _update_progress_ui
UpdateProgressUi(g, cb) ==
    [g EXCEPT !.bar_value = Percentage(cb.current, cb.total),
              !.applied = @ + 1,
              !.late_update = @ \/ g.completed > 0]

\* _on_process_complete_with_progress_ui: the bar is reset and hidden, the
\* run button is shown again, and exactly one of the two callbacks of
\* _run_video_renamer_script is called; either sets the button to normal.
OnProcessComplete(g, cb) ==
    [g EXCEPT !.bar_value = 0,
              !.bar_shown = FALSE,
              !.wrapper_shown = TRUE,
              !.completed = @ + 1,
              !.success_calls = IF cb.success THEN @ + 1 ELSE @,
              !.error_calls = IF cb.success THEN @ ELSE @ + 1,
              !.button = "normal"]

\* _append_to_log
AppendToLog(g) == [g EXCEPT !.logged = @ + 1]

\* The Tk main loop runs the callback at the head of its queue.
GuiEvent ==
    /\ gui.queue # <<>>
    /\ LET cb == Head(gui.queue)
           g == [gui EXCEPT !.queue = Tail(@)]
       IN  gui' = CASE cb.cb = "prepare" -> PrepareProgressUi(g)
                    [] cb.cb = "log" -> AppendToLog(g)
                    [] cb.cb = "update" -> UpdateProgressUi(g, cb)
                    [] cb.cb = "complete" -> OnProcessComplete(g, cb)
    /\ UiUnchanged

\* The threads, the child and the main loop once the run is started.
GuiRunning == CtlStep \/ ReaderStep \/ ChildExit \/ GuiEvent

NextGui == GuiRun \/ GuiRunning

\* The operating system schedules every thread, the child ends, and the
\* main loop keeps running its queue; pressing the button is up to the user.
SpecGui == InitGui /\ [][NextGui]_vars /\ WF_vars(GuiRunning)

-----------------------------------------------------------------------------
(* The UI: the update of the local scripts *)

\* What a path holds: "absent" when there is no such file, else its content;
\* "partial" is a download that broke off, "stale" a '.tmp' file an earlier,
\* interrupted update left.
InitUpdate ==
    /\ ScriptsNotStarted
    /\ gui = GuiIdle
    /\ \E l \in [UpdFiles -> {"absent", "v1", "v2"}],
          t \in [UpdFiles -> {"absent", "stale"}],
          r \in [UpdFiles -> {"v1", "v2"}] :
          upd = [UpdIdle EXCEPT !.local = l, !.tmp = t, !.remote = r,
                                !.local0 = l]

UpdUnchanged == UNCHANGED <<table, folder, pc, prep_valid_rows, renVars,
                            folder_exists, folder0, listdir_calls,
                            assets_is_downloads, launch, args, prepVars,
                            progress, gui>>

\* The file _download_and_compare_file is working on.
CurrentFile == FilesToCheck[upd.k + 1]

\* os.path.exists(path)
Exists(content) == content # "absent"

\* filecmp.cmp(local, temp, shallow=False)
SameContent(a, b) == a = b

\* _update_all_scripts: the scripts folder is checked, the counters are set
\* to zero.
UpdStart ==
    /\ upd.pc = "idle"
    /\ \E valid_folder \in BOOLEAN :
          upd' = [upd EXCEPT !.pc = IF valid_folder THEN "loop" ELSE "aborted"]
    /\ UpdUnchanged

\* The loop over files_to_check: the next file is handed to
\* _download_and_compare_file, or the loop ends.
UpdCall ==
    /\ upd.pc = "loop"
    /\ upd' = IF upd.k < Len(FilesToCheck)
              THEN [upd EXCEPT !.pc = "get", !.status = "",
                               !.local0 = upd.local]
              ELSE [upd EXCEPT !.pc = "done"]
    /\ UpdUnchanged

\* requests.get and raise_for_status: a response, or a RequestException.
UpdGet ==
    /\ upd.pc = "get"
    /\ \E ok \in BOOLEAN :
          upd' = [upd EXCEPT !.pc = IF ok THEN "open" ELSE "except"]
    /\ UpdUnchanged

\* open(temp_file_path, "wb"): the file is created or emptied, or open
\* raises.
UpdOpenTmp ==
    /\ upd.pc = "open"
    /\ \/ upd' = [upd EXCEPT !.pc = "write", !.tmp[CurrentFile] = "empty"]
       \/ upd' = [upd EXCEPT !.pc = "except"]
    /\ UpdUnchanged

\* The chunks are written: all of them, or the loop raises part-way.
UpdWrite ==
    /\ upd.pc = "write"
    /\ \/ upd' = [upd EXCEPT !.pc = "compare",
                             !.tmp[CurrentFile] = upd.remote[CurrentFile]]
       \/ upd' = [upd EXCEPT !.pc = "except", !.tmp[CurrentFile] = "partial"]
    /\ UpdUnchanged

\* The status chosen when the download differs from the local file.
StatusOfChange(local) == IF Exists(local) THEN "updated" ELSE "downloaded"

\* The download is compared with the local file: the same, so the download
\* is removed and "skipped" returned; or different, or no local file, so
\* the status is chosen; or filecmp.cmp raises.
UpdCompare ==
    /\ upd.pc = "compare"
    /\ LET f == CurrentFile
       IN  \/ /\ Exists(upd.local[f])
              /\ SameContent(upd.local[f], upd.tmp[f])
              /\ upd' = [upd EXCEPT !.pc = "return", !.status = "skipped",
                                    !.tmp[f] = "absent"]
           \/ /\ ~(Exists(upd.local[f]) /\ SameContent(upd.local[f], upd.tmp[f]))
              /\ upd' = [upd EXCEPT !.pc = "move",
                                    !.status = StatusOfChange(upd.local[f])]
           \/ /\ Exists(upd.local[f])
              /\ upd' = [upd EXCEPT !.pc = "except"]
    /\ UpdUnchanged

\* shutil.move(temp_file_path, local_full_path), a rename inside one
\* folder: the download takes the place of the local file, or the rename
\* raises and nothing is moved.
UpdMove ==
    /\ upd.pc = "move"
    /\ LET f == CurrentFile
       IN  \/ upd' = [upd EXCEPT !.pc = "return",
                                 !.local[f] = upd.tmp[f],
                                 !.tmp[f] = "absent"]
           \/ upd' = [upd EXCEPT !.pc = "except"]
    /\ UpdUnchanged

\* An except branch that forgets the download.
TmpKeptOnError(tmp) == tmp

\* if os.path.exists(temp_file_path): os.remove(temp_file_path)
TmpAfterExcept(tmp) == "absent"

\* except RequestException / except Exception: the download is removed and
\* "error" returned.
UpdExcept ==
    /\ upd.pc = "except"
    /\ upd' = [upd EXCEPT !.pc = "return", !.status = "error",
                          !.tmp[CurrentFile] = TmpAfterExcept(@),
                          !.removed_on_error =
                              IF Exists(upd.tmp[CurrentFile])
                              THEN @ + 1 ELSE @]
    /\ UpdUnchanged

\* The counters after a status came back.
Counted(u, status) ==
    [u EXCEPT !.updated_count = IF status = "updated" THEN @ + 1 ELSE @,
              !.downloaded_count = IF status = "downloaded" THEN @ + 1 ELSE @,
              !.skipped_count = IF status = "skipped" THEN @ + 1 ELSE @,
              !.error_count = IF status = "error" THEN @ + 1 ELSE @]

\* The loop body after the call: the status returned is counted.
UpdCount ==
    /\ upd.pc = "return"
    /\ upd' = [Counted(upd, upd.status) EXCEPT
                 !.pc = "loop",
                 !.k = @ + 1,
                 !.returned = Append(@, [file |-> CurrentFile,
                                         status |-> upd.status,
                                         before |-> upd.local0[CurrentFile],
                                         after |-> upd.local[CurrentFile],
                                         remote |-> upd.remote[CurrentFile],
                                         tmp |-> upd.tmp[CurrentFile]])]
    /\ UpdUnchanged

NextUpdate ==
    \/ UpdStart
    \/ UpdCall
    \/ UpdGet
    \/ UpdOpenTmp
    \/ UpdWrite
    \/ UpdCompare
    \/ UpdMove
    \/ UpdExcept
    \/ UpdCount

SpecUpdate == InitUpdate /\ [][NextUpdate]_vars

-----------------------------------------------------------------------------
(* Properties *)

Count(P(_), n) == Cardinality({k \in 1..n : P(k)})

IsSuccess(k) == log[k].outcome \in {"renamed", "already"}

IsFailure(k) == log[k].outcome \in {"error", "nofile"}

IsSkipped(k) == log[k].outcome = "skipped"

BlankAt(k) == IsBlankRow(table.hdr, valid_rows[k])

\* The folder as it was when the run entered the row loop.
FolderAtStart == IF log = <<>> THEN folder ELSE log[1].before

\* The history is a chain: each row starts on the folder the previous row
\* left, and the folder is the one the last processed row left.
LogIsChain ==
    /\ Len(log) = i
    /\ \A k \in 1..Len(log) :
          /\ log[k].idx = valid_rows[k].idx
          /\ k > 1 => log[k].before = log[k - 1].after
    /\ log # <<>> => log[Len(log)].after = folder

\* C1: after every processed row and at the end of the run, renamed
\* successes plus row-level failure entries equal the valid rows processed
\* so far minus the rows skipped for blank Description/AD ID; every
\* processed row is in exactly one of renamed, failed, skipped.
C1_Partition ==
    /\ LogIsChain
    /\ i <= Len(valid_rows)
    /\ successful_renames + Len(could_not_rename_files) = i - Count(BlankAt, i)
    /\ successful_renames = Count(IsSuccess, i)
    /\ Len(could_not_rename_files) = Count(IsFailure, i)
    /\ Count(IsSkipped, i) = Count(BlankAt, i)
    /\ (pc = "done" /\ valid_rows # <<>>) => i = Len(valid_rows)

C1_Witness ==
    /\ pc = "done"
    /\ successful_renames >= 1
    /\ Count(IsSkipped, i) + Len(could_not_rename_files) >= 1

\* C3: the files reported as without a spreadsheet match are exactly the
\* files present at the start of the run whose original stem is not the
\* Description of any valid row, whatever was renamed or failed.
C3_UnmatchedUsesOriginalStems ==
    (pc = "done" /\ valid_rows # <<>>) =>
        files_in_folder_without_spreadsheet_match =
            {f \in FolderAtStart :
                \A k \in 1..Len(valid_rows) :
                    Stem(f) # DescOf(table.hdr, valid_rows[k])}

C3_Witness ==
    /\ pc = "done"
    /\ files_in_folder_without_spreadsheet_match # {}
    /\ \E k \in 1..Len(log) :
          /\ log[k].outcome = "renamed"
          /\ log[k].src \in FolderAtStart
          /\ log[k].src \notin folder
          /\ log[k].src \notin files_in_folder_without_spreadsheet_match
    /\ \E k \in 1..Len(log) : log[k].outcome = "error"

RenamedAsFormatted(k) ==
    /\ log[k].src \in log[k].before
    /\ Stem(log[k].src) = log[k].desc
    /\ log[k].dst = log[k].desc \o <<"-">> \o log[k].ad_id \o Ext(log[k].src)
    /\ log[k].after = (log[k].before \ {log[k].src}) \cup {log[k].dst}

SplitsIntoMatchKey(k) ==
    /\ Stem(log[k].dst) = log[k].desc \o <<"-">> \o log[k].ad_id
    /\ Ext(log[k].dst) = Ext(log[k].src)

\* C4 as stated: a matched file d+ext is renamed to d-a+ext, the new name's
\* stem is the MatchKey, its extension the matched file's, and no other
\* entry changes name.
C4_Original ==
    \A k \in 1..Len(log) :
        log[k].outcome = "renamed" =>
            RenamedAsFormatted(k) /\ SplitsIntoMatchKey(k)

\* C4 amended: the new name is exactly d-a+ext and nothing else changes name;
\* its stem is the MatchKey and its extension the matched file's whenever
\* the matched file has an extension.
C4_RenameTarget ==
    /\ LogIsChain
    /\ \A k \in 1..Len(log) :
          log[k].outcome = "renamed" =>
              /\ RenamedAsFormatted(k)
              /\ Ext(log[k].src) # EmptyStr => SplitsIntoMatchKey(k)

C4_Witness ==
    \E k \in 1..Len(log) :
        /\ log[k].outcome = "renamed"
        /\ Ext(log[k].src) = <<".", "v">>
        /\ Cardinality(log[k].before) >= 2

\* A Description or AD ID that is blank in the table: no such column, an
\* empty cell, or a cell of blanks only.
CellIsBlank(c) == c.t = "nan" \/ (c.t = "str" /\ strip(c.v) = EmptyStr)

FieldIsBlank(hdr, r, name) ==
    ColumnOf(hdr, name) = 0 \/ CellIsBlank(r.cells[ColumnOf(hdr, name)])

\* C5: every valid row whose Description or AD ID is blank (absent column
\* or empty cell included) is skipped: no rename, no change of the renamed
\* count or the failure list, and later rows are processed.
C5_BlankRowsSkipped ==
    /\ \A k \in 1..Len(log) :
          (FieldIsBlank(table.hdr, valid_rows[k], "Description")
             \/ FieldIsBlank(table.hdr, valid_rows[k], "AD ID")) =>
              /\ log[k].outcome = "skipped"
              /\ log[k].after = log[k].before
    /\ (pc = "done" /\ valid_rows # <<>>) => Len(log) = Len(valid_rows)

\* The position in could_not_rename_files of the entry of failed row k.
FailurePos(k) == Cardinality({m \in 1..k : IsFailure(m)})

\* C6: a rename that raises yields exactly one failure entry, carrying the
\* original file name; no second file is tried for the row; later rows are
\* still processed.
C6_RenameErrorIsOneFailure ==
    /\ Len(could_not_rename_files) = Count(IsFailure, Len(log))
    /\ \A k \in 1..Len(log) :
          /\ log[k].attempts <= 1
          /\ log[k].outcome = "error" =>
                /\ log[k].attempts = 1
                /\ log[k].src \in log[k].before
                /\ Stem(log[k].src) = log[k].desc
                /\ could_not_rename_files[FailurePos(k)] =
                      [kind |-> "error", text |-> log[k].src]
    /\ (pc = "done" /\ valid_rows # <<>>) => Len(log) = Len(valid_rows)

C6_Witness ==
    \E k \in 1..Len(log) :
        /\ log[k].outcome = "error"
        /\ k < Len(log)
        /\ \E f \in log[k].before :
              f # log[k].src /\ Stem(f) = log[k].desc

\* C7: when the rename of row k fails the folder is left as it was before
\* row k: the renames of rows 1..k-1 stay and the matched file keeps its
\* name.
C7_NoRollback ==
    /\ LogIsChain
    /\ \A k \in 1..Len(log) :
          log[k].outcome = "error" =>
              /\ log[k].after = log[k].before
              /\ log[k].src \in log[k].after
              /\ \A m \in 1..(k - 1) :
                    (log[m].outcome = "renamed" /\ log[m].dst \in log[k].before)
                        => log[m].dst \in log[k].after

C7_Witness ==
    \E k \in 1..Len(log) :
        /\ log[k].outcome = "error"
        /\ \E m \in 1..(k - 1) :
              log[m].outcome = "renamed" /\ log[m].dst \in folder

SameDescRenamedBefore(m, k) ==
    /\ m < k
    /\ log[m].outcome = "renamed"
    /\ log[m].desc = log[k].desc

\* C8 as stated: once a row with Description d has renamed a file, every
\* later row of the run with the same Description is a 'no file found'
\* failure and renames nothing.
C8_Original ==
    \A k \in 1..Len(log) : \A m \in 1..Len(log) :
        SameDescRenamedBefore(m, k) =>
            log[k].outcome = "nofile" /\ log[k].after = log[k].before

\* C8 amended: the file renamed by the earlier row no longer has stem d and
\* is never matched by the later row; the later row is a 'no file found'
\* failure that renames nothing unless the folder then holds another file
\* of stem d, and that file is the one attempted.
C8_SecondRowSameDescription ==
    \A k \in 1..Len(log) : \A m \in 1..Len(log) :
        SameDescRenamedBefore(m, k) =>
            /\ Stem(log[m].dst) # log[k].desc
            /\ log[k].outcome \in {"nofile", "renamed", "error"}
            /\ log[k].outcome = "nofile" =>
                  /\ log[k].after = log[k].before
                  /\ could_not_rename_files[FailurePos(k)] =
                        [kind |-> "nofile", text |-> log[k].desc]
            /\ (\A f \in log[k].before : Stem(f) # log[k].desc) =>
                  log[k].outcome = "nofile"
            /\ log[k].outcome \in {"renamed", "error"} =>
                  /\ log[k].src \in log[k].before
                  /\ log[k].src # log[m].dst
                  /\ Stem(log[k].src) = log[k].desc

C8_Witness ==
    \E k \in 1..Len(log) : \E m \in 1..Len(log) :
        /\ SameDescRenamedBefore(m, k)
        /\ log[k].outcome = "nofile"
        /\ log[m].dst \in log[k].before

\* Row k's Description is the MatchKey of another valid row and no file of
\* that stem is in the folder at the start.
CollidesWithOtherMatchKey(k) ==
    /\ \E r \in 1..Len(valid_rows) :
          /\ r # k
          /\ ~IsBlankRow(table.hdr, valid_rows[r])
          /\ NewStem(DescOf(table.hdr, valid_rows[r]),
                     AdIdOf(table.hdr, valid_rows[r])) = log[k].desc
    /\ \A f \in FolderAtStart : Stem(f) # log[k].desc

\* C9 as stated: such a row ends with a 'no match' failure whatever the
\* order of the two rows; the file renamed by the other row is not renamed a
\* second time.
C9_Original ==
    \A k \in 1..Len(log) :
        CollidesWithOtherMatchKey(k) => log[k].outcome = "nofile"

\* C9 amended: a row whose Description is no stem of the initial folder ends
\* with a 'no match' failure unless an earlier row of the run has already
\* renamed a file to that stem; then it matches that renamed file and
\* attempts to rename it a second time.
C9_CollisionWithMatchKey ==
    \A k \in 1..Len(log) :
        (~IsSkipped(k) /\ \A f \in FolderAtStart : Stem(f) # log[k].desc) =>
            \/ log[k].outcome = "nofile"
            \/ /\ log[k].outcome \in {"renamed", "error"}
               /\ \E m \in 1..(k - 1) :
                     /\ log[m].outcome = "renamed"
                     /\ log[m].dst = log[k].src
                     /\ Stem(log[m].dst) = log[k].desc

C9_Witness ==
    \E k \in 1..Len(log) :
        /\ CollidesWithOtherMatchKey(k)
        /\ log[k].outcome = "renamed"
        /\ \E m \in 1..(k - 1) : log[m].dst = log[k].src

\* C2: a second run with the same rows on the folder left by a fully
\* successful first run renames nothing, reports every row as a success
\* and has the renamed count and failure list of the first run.
FirstRunFullySuccessful ==
    /\ prev.set
    /\ prev.renames >= 1
    /\ prev.failures = <<>>

C2_RerunIdempotent ==
    (run = 2 /\ pc = "done" /\ FirstRunFullySuccessful) =>
        /\ successful_renames = prev.renames
        /\ could_not_rename_files = prev.failures
        /\ \A k \in 1..Len(log) : log[k].outcome \in {"already", "skipped"}

\* A cell that is empty once normalised: NaN, or text made of blanks only.
BlankOnceNormalised(c) ==
    c.t = "nan" \/ (c.t = "str" /\ \A j \in 1..Len(c.v) : c.v[j] = " ")

\* The positions of the table rows whose first three cells are all
\* non-empty.
Qualifying(t) ==
    {k \in 1..Len(t.rows) : \A c \in 1..3 : ~BlankOnceNormalised(t.rows[k][c])}

\* rs holds exactly the qualifying rows of t, in the order of the table,
\* with the cells after the first three as read.
IsFilteredSubsequence(rs, t) ==
    /\ Len(rs) = Cardinality(Qualifying(t))
    /\ \A j \in 1..Len(rs) :
          /\ rs[j].idx + 1 \in Qualifying(t)
          /\ j > 1 => rs[j - 1].idx < rs[j].idx
          /\ \A c \in 1..NCols(t) :
                c > 3 => rs[j].cells[c] = t.rows[rs[j].idx + 1][c]

\* C10: for a table of at least 3 columns the rows handed on are exactly,
\* and in the original order, the rows whose first three columns are
\* non-empty after str conversion, NaN collapse and trimming; the renamer
\* and the metadata export select the same rows.
C10_RowFilter ==
    /\ pc \in {"filter_prep", "filtered"} =>
          IsFilteredSubsequence(valid_rows, table)
    /\ pc = "filtered" =>
          /\ IsFilteredSubsequence(prep_valid_rows, table)
          /\ prep_valid_rows = valid_rows

C10_Witness ==
    /\ pc = "filtered"
    /\ Len(table.rows) >= 2
    /\ Len(valid_rows) = 1
    /\ valid_rows[1].idx = 1
    /\ prep_valid_rows = valid_rows

\* C11: a table with fewer than 3 columns is a fatal schema error in both
\* scripts: the run ends with an error status (sys.exit(1)) and it does so
\* before the folder is listed, before any file is renamed and before any
\* export record or output file is produced; no other table ends that way.
C11_TooFewColumnsIsFatal ==
    /\ NCols(table) < 3 =>
          /\ pc \in {"start", "exit1", "prep_start", "prep_exit1"}
          /\ listdir_calls = 0
          /\ folder = folder0
          /\ log = <<>>
          /\ successful_renames = 0
          /\ prep_log = <<>>
          /\ output_data = <<>>
          /\ ~out_file.written
    /\ pc \in {"exit1", "prep_exit1"} => NCols(table) < 3

C11_Witness ==
    /\ pc = "prep_exit1"
    /\ NCols(table) = 2
    /\ Len(table.rows) >= 1
    /\ folder # {}

\* C12: whenever the folder does not exist, a run of the renamer ends with
\* an error and never with a normal completion, whatever the table holds.
C12_MissingFolderIsFatal == ~folder_exists => pc # "done"

\* C13: the folder scanned for row k reflects every rename of rows 1..k-1:
\* the file a row matches is in the folder as the earlier rows left it, a
\* name renamed away by an earlier row is not matched again while it is
\* gone, and a file an earlier row renamed is found by a later row whose
\* Description is its new stem.
C13_ScanSeesEarlierRenames ==
    /\ LogIsChain
    /\ \A k \in 1..Len(log) :
          /\ log[k].outcome \in {"renamed", "error"} =>
                log[k].src \in log[k].before
          /\ \A m \in 1..(k - 1) :
                log[m].outcome = "renamed" =>
                   /\ log[m].src \notin log[k].before =>
                         log[k].src # log[m].src
                   /\ ( /\ log[m].dst \in log[k].before
                        /\ Stem(log[m].dst) = log[k].desc
                        /\ log[k].outcome # "skipped" ) =>
                         log[k].outcome # "nofile"

C13_Witness ==
    /\ Len(log) = 2
    /\ log[1].outcome = "renamed"
    /\ log[2].outcome = "renamed"
    /\ log[2].src = log[1].dst
    /\ log[1].src \notin log[2].before

\* No two names of the set have the same stem.
UniqueStems(fset) == \A f, g \in fset : Stem(f) = Stem(g) => f = g

\* C14: starting from a folder in which no two files share a stem, in every
\* state reached while the renamer processes its rows at most one folder
\* entry exists per stem.
C14_StemsStayUnique == UniqueStems(folder0) => UniqueStems(folder)

\* The records of prep_log of the rows that gave an export record, in order.
IsEmitted(r) == r.outcome = "emitted"

EmittedLog == SelectSeq(prep_log, IsEmitted)

\* The cell, as read, of the row behind the j-th export record.
RawCellOfEntry(j, name) ==
    IF ColumnOf(table.hdr, name) = 0 THEN StrCell(EmptyStr)
    ELSE table.rows[EmittedLog[j].idx + 1][ColumnOf(table.hdr, name)]

\* The export keeps one history record per processed row and one export
\* record per row that found its file.
PrepLogIsHistory ==
    /\ pc # "prep_crash" => Len(prep_log) = prep_i
    /\ \A k \in 1..Len(prep_log) : prep_log[k].idx = prep_valid_rows[k].idx
    /\ Len(output_data) = Len(EmittedLog)

NonBlankOverride(a) == a.given /\ strip(a.v) # EmptyStr

\* The row's text for a column: trimmed, blank when the column is absent or
\* the cell is empty.
RowValueTrimmed(j, name) ==
    LET c == RawCellOfEntry(j, name)
    IN  IF c.t = "nan" THEN EmptyStr ELSE strip(PyStr(c))

\* s with one trailing ".0" removed.
WithoutDotZero(s) ==
    IF EndsWithDotZero(s) THEN SubSeq(s, 1, Len(s) - 2) ELSE s

\* C17: for each of Link to Wrike Project, Year, Sub-Initiative and Location
\* Type, a record holds the override when the override is present and
\* non-blank, and otherwise the row's own value, trimmed (the Year in its
\* normalised form); an override that is empty or only blanks never
\* replaces the row's value.
C17_OverridePrecedence ==
    \A j \in 1..Len(output_data) :
       /\ \A p \in { <<"wrike_link", "Link to Wrike Project">>,
                     <<"sub_initiative", "Sub-Initiative">>,
                     <<"location_type", "Location Type">> } :
             RawCellOfEntry(j, p[2]).t # "nan" =>
                output_data[j][p[2]] =
                   IF NonBlankOverride(args[p[1]]) THEN args[p[1]].v
                   ELSE RowValueTrimmed(j, p[2])
       /\ output_data[j]["Year"] =
             IF NonBlankOverride(args.year)
             THEN WithoutDotZero(strip(args.year.v))
             ELSE WithoutDotZero(RowValueTrimmed(j, "Year"))

\* The consumed column and the override, if any, behind an export field.
FallbackFields ==
    { [field |-> "Link to Wrike Project", col |-> "Link to Wrike Project",
       arg |-> "wrike_link"],
      [field |-> "Sub-Initiative", col |-> "Sub-Initiative",
       arg |-> "sub_initiative"],
      [field |-> "Location Type", col |-> "Location Type",
       arg |-> "location_type"],
      [field |-> "Deliverable", col |-> "Placement(s)", arg |-> "none"],
      [field |-> "Video Objective", col |-> "Objective", arg |-> "none"],
      [field |-> "Lead Offer Message", col |-> "Lead Offer Message",
       arg |-> "none"],
      [field |-> "Lead Finance Message", col |-> "Lead Finance Message",
       arg |-> "none"] }

\* C18: when no override is given and the row has no value for a consumed
\* column (the column is absent, or the cell is empty), the export field is
\* the empty string, for Link to Wrike Project, Sub-Initiative, Location
\* Type, Deliverable, Video Objective and the two lead-message fields.
C18_BlankFallback ==
    \A j \in 1..Len(output_data) : \A x \in FallbackFields :
       ( /\ x.arg # "none" => ~args[x.arg].given
         /\ \/ ColumnOf(table.hdr, x.col) = 0
            \/ RawCellOfEntry(j, x.col).t = "nan" ) =>
          output_data[j][x.field] = EmptyStr

\* The value the Year is resolved from: the override when one is passed,
\* else the row's cell as text, blank when the cell is empty or missing.
ResolvedYear(j) ==
    IF args.year.given /\ args.year.v # EmptyStr THEN strip(args.year.v)
    ELSE RowValueTrimmed(j, "Year")

\* C19: the exported Year is the resolved value (override or row value,
\* trimmed) with one trailing '.0' removed if it ends with '.0', unchanged
\* otherwise, and the empty string when the resolved value is blank or
\* missing.
C19_YearNormalised ==
    \A j \in 1..Len(output_data) :
       LET s == ResolvedYear(j)
           y == output_data[j]["Year"]
       IN  /\ EndsWithDotZero(s) => y \o <<".", "0">> = s
           /\ ~EndsWithDotZero(s) => y = s
           /\ s = EmptyStr => y = EmptyStr

C19_Witness ==
    /\ Len(output_data) = 1
    /\ ~args.year.given
    /\ RawCellOfEntry(1, "Year") = FloatCell(<<"2", "4">>)
    /\ output_data[1]["Year"] = <<"2", "4">>

\* C20: the trimmed TRT value ':06' is exported as '06 seconds', ':15' as
\* '15 seconds', ':30' as '30 seconds', and every other value unchanged.
C20_TrtMapping ==
    \A j \in 1..Len(output_data) :
       LET c == RawCellOfEntry(j, "TRT")
           trt == strip(c.v)
           out == output_data[j]["Total Run Time (TRT)"]
       IN  c.t = "str" =>
              /\ trt = <<":", "0", "6">> => out = Seconds06
              /\ trt = <<":", "1", "5">> => out = Seconds15
              /\ trt = <<":", "3", "0">> => out = Seconds30
              /\ trt \notin {<<":", "0", "6">>, <<":", "1", "5">>,
                             <<":", "3", "0">>} => out = trt

C20_Witness ==
    /\ Len(output_data) = 1
    /\ RawCellOfEntry(1, "TRT") = StrCell(<<" ", ":", "0", "6">>)
    /\ output_data[1]["Total Run Time (TRT)"] = Seconds06

\* The trimmed Ad Name of the row behind the j-th export record.
AdNameOfEntry(j) == RowValueTrimmed(j, "Ad Name")

\* s ends with the text suf.
EndsWith(s, suf) ==
    Len(s) >= Len(suf) /\ SubSeq(s, Len(s) - Len(suf) + 1, Len(s)) = suf

\* The ad name with a trailing ' (Spanish)' removed, trimmed.
WithoutSpanishSuffix(n) ==
    IF EndsWith(n, SpanishSuffix)
    THEN strip(SubSeq(n, 1, Len(n) - Len(SpanishSuffix)))
    ELSE n

\* C21: Video Focus is the ad name with a trailing ' (Spanish)' removed and
\* then trimmed, blank when that remainder is exactly '____'; an ad name in
\* which ' (Spanish)' is not a trailing suffix keeps what follows it.
C21_VideoFocus ==
    \A j \in 1..Len(output_data) :
       RawCellOfEntry(j, "Ad Name").t = "str" =>
          output_data[j]["Video Focus"] =
             IF WithoutSpanishSuffix(AdNameOfEntry(j)) = FocusPlaceholder
             THEN EmptyStr
             ELSE WithoutSpanishSuffix(AdNameOfEntry(j))

\* The Video Expiration of a trimmed Spot Running text, as the rule reads.
ExpirationOf(s) ==
    IF \E k \in 1..Len(s) : s[k] = "-"
    THEN LET h == CHOOSE k \in 1..Len(s) :
                     s[k] = "-" /\ \A n \in 1..(k - 1) : s[n] # "-"
         IN  strip(SubSeq(s, h + 1, Len(s)))
    ELSE IF \E k \in 1..Len(s) : s[k] = " "
    THEN LET b == CHOOSE k \in 1..Len(s) :
                     s[k] = " " /\ \A n \in 1..(k - 1) : s[n] # " "
         IN  SubSeq(s, 1, b - 1)
    ELSE s

\* C22: Video Expiration is derived from the row's Spot Running value: with
\* a hyphen, the trimmed text after the first hyphen; without one, the text
\* before the first space, or the whole trimmed value; a blank or missing
\* Spot Running value (column absent, or cell empty) gives a blank.
C22_VideoExpiration ==
    \A j \in 1..Len(output_data) :
       output_data[j]["Video Expiration"] =
          ExpirationOf(RowValueTrimmed(j, "Spot Running"))

\* The fields the derivation rules of the specification populate.
SpecPopulated ==
    { "filename", "File Type", "Asset Type", "Asset Sub-Type", "Asset Status",
      "Usage Rights", "User Status", "Initiative", "Video Type",
      "Link to Wrike Project", "Year", "Sub-Initiative", "Location Type",
      "Deliverable", "Video Expiration", "Lead Offer Message",
      "Lead Finance Message", "Video Objective", "Video Focus",
      "Total Run Time (TRT)", "Language" }

\* The fields main() assigns: those, and the row's AD ID and spot text.
CodePopulated == SpecPopulated \cup {"Ad ID", "Spot Running (MM/DD/YYYY)"}

\* Every record has exactly the header fields, the CSV has them in header
\* order, and the fields outside the set populated are empty.
FixedSchema(populated) ==
    /\ \A c, e \in 1..Len(headers) : headers[c] = headers[e] => c = e
    /\ \A j \in 1..Len(output_data) :
          /\ DOMAIN output_data[j] = HeaderSet
          /\ \A h \in HeaderSet \ populated : output_data[j][h] = EmptyStr
    /\ out_file.written =>
          /\ Len(out_file.rows) = Len(output_data)
          /\ \A k \in 1..Len(out_file.rows) :
                /\ Len(out_file.rows[k]) = Len(headers)
                /\ \A c \in 1..Len(headers) :
                      out_file.rows[k][c] = output_data[k][headers[c]]

\* C23 as stated: every field the derivation rules of the specification do
\* not populate is the empty string.
C23_Original == FixedSchema(SpecPopulated)

\* C23: every export record has exactly the fields of the header list, in
\* header order in the CSV, and every field other than the ones the rules
\* populate, Ad ID and Spot Running (MM/DD/YYYY) is the empty string.
C23_FixedSchema == FixedSchema(CodePopulated)

C23_Witness ==
    /\ out_file.written
    /\ Len(out_file.rows) = 1
    /\ out_file.rows[1][1] = <<"a", "-", "1", ".", "m", "p", "4">>
    /\ output_data[1]["Ad ID"] = <<"1">>
    /\ output_data[1]["name"] = EmptyStr

\* The progress lines printed so far are those of rows 1..n, in order, each
\* with the same total, and each printed when the rows before it, and only
\* those, had been looked up and renamed.
ProgressIsPrefix(n, total) ==
    /\ Len(progress) = n
    /\ \A k \in 1..n :
          /\ progress[k].sig = [current |-> k, total |-> total]
          /\ progress[k].done = k - 1

\* C24: both scripts print exactly one (current, total) progress signal per
\* valid row they reach, rows then skipped or failing included; current
\* runs 1, 2, ..., total in increasing order, total is the number of valid
\* rows, and the signal of row k is printed before the lookup and the
\* rename of row k; a run that ends normally has printed all of them.
C24_ProgressSignal ==
    /\ pc \in {"rows", "summary", "done"} =>
          /\ ProgressIsPrefix(i, Len(valid_rows))
          /\ \A k \in 1..Len(log) : progress[k].folder = log[k].before
    /\ pc \in {"summary", "done"} => Len(progress) = Len(valid_rows)
    /\ pc \in {"prep_rows", "prep_write", "prep_done", "prep_crash"} =>
          /\ ProgressIsPrefix(prep_i, Len(prep_valid_rows))
          /\ \A k \in 1..Len(prep_log) :
                progress[k].folder = prep_log[k].listed
    /\ pc \in {"prep_write", "prep_done"} =>
          Len(progress) = Len(prep_valid_rows)
    /\ pc \in {"start", "exit1", "crash", "prep_start", "prep_exit1"} =>
          progress = <<>>

C24_Witness ==
    /\ pc = "done"
    /\ Len(progress) = 2
    /\ log[1].outcome = "skipped"
    /\ log[2].outcome = "renamed"
    /\ progress[2].folder # folder

\* The files of fset whose stem is the Description.
Candidates(fset, desc) == {f \in fset : Stem(f) = desc}

\* The first name of a listing whose stem is the Description.
FirstCandidate(order, desc) ==
    order[CHOOSE k \in 1..Len(order) :
             /\ Stem(order[k]) = desc
             /\ \A n \in 1..(k - 1) : Stem(order[n]) # desc]

\* C25: each row triggers at most one rename attempt: whatever the order
\* of the listing and whether or not the rename fails, the scan attempts
\* the first listed file whose stem is the Description and no other, and
\* the other files of that stem keep their names in that step.
C25_OneAttemptPerRow ==
    \A k \in 1..Len(log) :
       /\ log[k].attempts <= 1
       /\ log[k].attempts = 1 <=>
             (log[k].outcome # "skipped"
                /\ Candidates(log[k].before, log[k].desc) # {})
       /\ log[k].attempts = 1 =>
             /\ log[k].src \in Candidates(log[k].before, log[k].desc)
             /\ Candidates(log[k].before, log[k].desc) \ {log[k].src}
                   \subseteq log[k].after
       /\ log[k].outcome # "skipped" =>
             \A order \in Listings(log[k].before), oserr \in BOOLEAN :
                LET s == Scan(log[k].before, order, 1, log[k].desc,
                              NewStem(log[k].desc, log[k].ad_id), oserr)
                IN  /\ s.attempts <= 1
                    /\ s.attempts = 1 =>
                          s.src = FirstCandidate(order, log[k].desc)

C25_Witness ==
    \E k \in 1..Len(log) :
       /\ Cardinality(Candidates(log[k].before, log[k].desc)) = 2
       /\ log[k].outcome = "renamed"
       /\ log[k].attempts = 1
       /\ Cardinality(Candidates(log[k].after, log[k].desc)) = 1

\* C26: for every row with non-blank Description and AD ID the matched
\* file's name differs from its target name, so no row is ever counted
\* through the 'already has the target name' branch, and the renamed count
\* is the number of renames that succeeded in the run.
C26_AlreadyBranchUnreachable ==
    /\ \A k \in 1..Len(log) :
          /\ log[k].outcome # "already"
          /\ log[k].outcome \in {"renamed", "error"} =>
                log[k].src # log[k].dst
          /\ log[k].outcome = "renamed" =>
                /\ log[k].src \notin log[k].after
                /\ log[k].dst \in log[k].after
    /\ successful_renames =
          Cardinality({k \in 1..Len(log) : log[k].outcome = "renamed"})

C26_Witness ==
    /\ pc = "done"
    /\ successful_renames = 2
    /\ \A k \in 1..Len(log) : log[k].outcome = "renamed"
    /\ log[2].desc = Stem(log[1].dst)

\* The MatchKey Description-AD ID of the k-th row the renamer processed.
MatchKeyOf(k) == NewStem(log[k].desc, log[k].ad_id)

\* The export emitted a record for the k-th row of the renamer, its filename
\* having the MatchKey as stem.
EmittedFor(k) ==
    \E n \in 1..Len(prep_log) :
       /\ prep_log[n].idx = log[k].idx
       /\ prep_log[n].outcome = "emitted"
       /\ Stem(prep_log[n].match) = MatchKeyOf(k)

\* A later row of the run renamed the file row k had renamed.
RenamedAgainLater(k) ==
    \E n \in (k + 1)..Len(log) :
       log[n].outcome = "renamed" /\ log[n].src = log[k].dst

C28_NoFileLost ==
    /\ Cardinality(folder) = Cardinality(folder0)
    /\ \A k \in 1..Len(log) :
          log[k].outcome = "renamed" =>
             /\ log[k].dst \notin log[k].before
             /\ Ext(log[k].dst) = Ext(log[k].src)

\* The run has come to rest: the worker thread has ended and the main loop
\* has emptied its queue.
GuiQuiescent == gui.ctl = "finished" /\ gui.queue = <<>>

\* The outcome the completion handler is to report: the child was launched
\* and ended with exit code 0.
RunSucceeded == gui.child = "exited" /\ gui.returncode = 0

C29_Safety ==
    /\ gui.scheduled <= 1
    /\ gui.ctl = "finished" <=> gui.scheduled = 1
    /\ ~gui.scheduled_early
    /\ gui.completed <= gui.scheduled
    /\ gui.success_calls + gui.error_calls = gui.completed
    /\ gui.success_calls = 1 => RunSucceeded
    /\ gui.error_calls = 1 => ~RunSucceeded
    /\ ~gui.late_update
    /\ gui.completed = 1 =>
          /\ gui.button = "normal"
          /\ gui.wrapper_shown
          /\ ~gui.bar_shown
          /\ gui.bar_value = 0
          /\ \A k \in 1..Len(gui.queue) :
                gui.queue[k].cb \notin {"prepare", "update", "complete"}
    /\ GuiQuiescent => gui.completed = 1

\* C29: for a script run started from the UI with a progress bar, under
\* every interleaving of the two reader threads, the worker thread, the
\* child and the main loop, the completion handler is queued exactly once
\* and never while a reader thread is still running; it calls exactly one
\* of success_callback (exit code 0) and error_callback (any other exit
\* code, or a launch that raised); no progress update is applied after the
\* bar was reset; and once the run is started the run button is eventually
\* enabled again.
C29_CompletionOnce ==
    /\ []C29_Safety
    /\ (gui.main = "launched") ~> (gui.button = "normal" /\ GuiQuiescent)

\* A run that printed three lines, two of them PROGRESS lines, has ended
\* with exit code 0: the three lines were logged, the two updates applied,
\* then success_callback was called.
C29_Witness ==
    /\ GuiQuiescent
    /\ gui.applied = 2
    /\ gui.logged = 3
    /\ gui.success_calls = 1
    /\ gui.button = "normal"

UpdStatuses == {"skipped", "updated", "downloaded", "error"}

\* The number of files for which the given status came back.
ReturnedWith(status) ==
    Cardinality({k \in 1..Len(upd.returned) : upd.returned[k].status = status})

\* What one call of _download_and_compare_file left, by its status.
ReturnedRight(r) ==
    /\ r.status \in UpdStatuses
    /\ r.tmp = "absent"
    /\ r.status \in {"skipped", "error"} => r.after = r.before
    /\ r.status = "skipped" => r.before = r.remote
    /\ r.status = "updated" =>
          r.before \notin {"absent", r.remote} /\ r.after = r.remote
    /\ r.status = "downloaded" => r.before = "absent" /\ r.after = r.remote

=============================================================================
